---- MODULE Spec2Model ----
(***************************************************************************)
(* Model of models.py: the user registry, the cart, the restaurant menu,   *)
(* order validation and payment processing of a food-ordering application. *)
(*                                                                         *)
(* Python strings whose characters matter (card numbers, cvv codes,        *)
(* emails, passwords) are sequences of characters; a character is a        *)
(* one-element token such as "4", "a", "-" or "U+00B2".  Strings that are  *)
(* only compared or concatenated (item names, payment methods, messages)   *)
(* are TLA+ strings.  Prices are integers (a unit of currency); quantities *)
(* are Python ints.                                                        *)
(***************************************************************************)
EXTENDS Integers, Sequences, FiniteSets, TLC

VARIABLES users,            \* UserRegistry._users : email -> password
          passed,           \* history: emails of the register calls that passed all checks
          items,            \* Cart.items : insertion-ordered dict, a sequence of CartItem
          calls,            \* history: per name, the add_item arguments since the entry was last absent
          available_items,  \* RestaurantMenu.available_items : name -> price
          call,             \* the most recent call: operation and arguments
          ret,              \* what the most recent call returned or raised
          gateway_calls,    \* invocations the injected gateway received from the most recent call
          processor_calls   \* invocations PaymentProcessing received from the most recent call

vars == <<users, passed, items, calls, available_items, call, ret,
          gateway_calls, processor_calls>>

(***************************************************************************)
(* Bounds and input sets                                                   *)
(***************************************************************************)
MaxCardLen == 17
MaxCvvLen == 4
MaxPwLen == 6
MaxCalls == 3
MaxOrderCalls == 3

\* Characters: the ASCII decimal digits, two non-ASCII characters for which
\* Python's str.isdigit() is true (SUPERSCRIPT TWO, ARABIC-INDIC DIGIT THREE),
\* and two characters that are no digits at all.
AsciiDigits == {"0", "1", "2", "3", "4", "5", "6", "7", "8", "9"}
OtherUnicodeDigits == {"U+00B2", "U+0663"}
NonDigits == {"a", "-"}

CardLens == 14..MaxCardLen
CvvLens == 2..MaxCvvLen
PwLens == 5..MaxPwLen

\* a string of n characters, all `fill` except `odd` at the positions in pos
Str(n, fill, odd, pos) == [i \in 1..n |-> IF i \in pos THEN odd ELSE fill]

TestCard == [i \in 1..16 |-> IF i % 2 = 1 THEN "4" ELSE "2"]      \* "4242424242424242"
ShortCard == <<"1", "2", "3">>                                      \* "123"
DashedCard ==                                                       \* "4242-4242-4242-4242"
    [i \in 1..19 |-> IF i % 5 = 0 THEN "-" ELSE IF i % 5 \in {1, 3} THEN "4" ELSE "2"]
TestCvv == <<"1", "2", "3">>                                        \* "123"

Cards ==
    {TestCard, ShortCard, DashedCard}
    \cup {Str(n, "4", "4", {}) : n \in CardLens}
    \cup UNION {{Str(n, "4", c, {1}), Str(n, "4", c, {n})} :
                    n \in CardLens, c \in NonDigits \cup OtherUnicodeDigits}

Cvvs ==
    {TestCvv}
    \cup {Str(n, "7", "7", {}) : n \in CvvLens}
    \cup {Str(n, "7", c, {n}) : n \in CvvLens, c \in NonDigits \cup OtherUnicodeDigits}

Methods == {"credit_card", "cash", "bitcoin"}
Amounts == {10}

Names == {"Pizza", "Burger", "Salad"}
Prices == {5, 10}
Quantities == {-1, 1, 2}

MenuPrices == {10}
OrderQuantities == {1, 2}
OrderMethods == {"credit_card", "cash"}
OrderCards == {TestCard, ShortCard}
OrderCvvs == {TestCvv}

\* "a@b.c", "b@b.c", "a@b@c.d": accepted by _is_valid_email;
\* "ab.c", "a@bc", "a.b@c", "a@b.c@d", "": rejected
Emails ==
    { <<"a", "@", "b", ".", "c">>, <<"b", "@", "b", ".", "c">>,
      <<"a", "@", "b", "@", "c", ".", "d">>,
      <<"a", "b", ".", "c">>, <<"a", "@", "b", "c">>, <<"a", ".", "b", "@", "c">>,
      <<"a", "@", "b", ".", "c", "@", "d">>, <<>> }

Passwords == {Str(n, c, c, {}) : n \in PwLens, c \in {"s", "t"}}

(***************************************************************************)
(* Return values                                                           *)
(***************************************************************************)
None == [kind |-> "None"]
Bool(b) == [kind |-> "bool", value |-> b]
Text(s) == [kind |-> "str", text |-> s]
Num(n) == [kind |-> "num", num |-> n]
Dict(s, m) == [kind |-> "dict", success |-> s, message |-> m]
Raise(type, msg) == [kind |-> "raise", exc |-> type, text |-> msg]

(***************************************************************************)
(* UserRegistry                                                            *)
(***************************************************************************)
Contains(s, c) == \E i \in 1..Len(s) : s[i] = c

\* email.split("@")[-1]: what follows the last "@", the whole string without one
LastSegment(email) ==
    LET ats == {i \in 1..Len(email) : email[i] = "@"} IN
    IF ats = {} THEN email
    ELSE LET last == CHOOSE i \in ats : \A j \in ats : j <= i IN
         SubSeq(email, last + 1, Len(email))

is_valid_email(email) == Contains(email, "@") /\ Contains(LastSegment(email), ".")

is_strong_password(password) == Len(password) >= 6

\* the dict d with d[k] = v
Put(d, k, v) == [x \in DOMAIN d \cup {k} |-> IF x = k THEN v ELSE d[x]]

\* register as it would be without the duplicate check
register_overwrite(us, email, password, confirm_password) ==
    IF ~is_valid_email(email)
    THEN [ret |-> Dict(FALSE, "Invalid email format"), users |-> us]
    ELSE IF password # confirm_password
    THEN [ret |-> Dict(FALSE, "Passwords do not match"), users |-> us]
    ELSE IF ~is_strong_password(password)
    THEN [ret |-> Dict(FALSE, "Password too weak"), users |-> us]
    ELSE [ret |-> Dict(TRUE, "Registration successful, confirmation email sent"),
          users |-> Put(us, email, password)]

\* The result of register: the returned dict and the registry afterwards.
register(us, email, password, confirm_password) ==
    IF ~is_valid_email(email)
    THEN [ret |-> Dict(FALSE, "Invalid email format"), users |-> us]
    ELSE IF password # confirm_password
    THEN [ret |-> Dict(FALSE, "Passwords do not match"), users |-> us]
    ELSE IF ~is_strong_password(password)
    THEN [ret |-> Dict(FALSE, "Password too weak"), users |-> us]
    ELSE IF email \in DOMAIN us
    THEN [ret |-> Dict(FALSE, "Email already registered"), users |-> us]
    ELSE [ret |-> Dict(TRUE, "Registration successful, confirmation email sent"),
          users |-> Put(us, email, password)]

is_registered(us, email) == email \in DOMAIN us

\* the history variable: this call passed all four checks
PassedAllChecks(us, email, password, confirm_password) ==
    /\ Contains(email, "@") /\ Contains(LastSegment(email), ".")
    /\ password = confirm_password
    /\ Len(password) >= 6
    /\ email \notin DOMAIN us

Register(email, password, confirm_password) ==
    LET r == register(users, email, password, confirm_password) IN
    /\ call' = [op |-> "register", email |-> email, password |-> password,
                confirm_password |-> confirm_password]
    /\ ret' = r.ret
    /\ users' = r.users
    /\ passed' = IF PassedAllChecks(users, email, password, confirm_password)
                 THEN passed \cup {email} ELSE passed
    /\ gateway_calls' = <<>>
    /\ processor_calls' = <<>>
    /\ UNCHANGED <<items, calls, available_items>>

IsRegistered(email) ==
    /\ call' = [op |-> "is_registered", email |-> email]
    /\ ret' = Bool(is_registered(users, email))
    /\ gateway_calls' = <<>>
    /\ processor_calls' = <<>>
    /\ UNCHANGED <<users, passed, items, calls, available_items>>

(***************************************************************************)
(* Cart                                                                    *)
(***************************************************************************)
CartItem(name, price, quantity) == [name |-> name, price |-> price, quantity |-> quantity]

\* the position of the key `name` in the dict, 0 when it is absent
IndexOf(its, name) ==
    IF \E i \in 1..Len(its) : its[i].name = name
    THEN CHOOSE i \in 1..Len(its) : its[i].name = name
    ELSE 0

\* the dict without every entry whose key is `name`
RECURSIVE Without(_, _)
Without(its, name) ==
    IF its = <<>> THEN <<>>
    ELSE IF Head(its).name = name THEN Without(Tail(its), name)
    ELSE <<Head(its)>> \o Without(Tail(its), name)

\* add_item as it would be if a later call replaced the recorded price
add_item_overwrite_price(its, name, price, quantity) ==
    IF IndexOf(its, name) # 0
    THEN [its EXCEPT ![IndexOf(its, name)] = CartItem(name, price, @.quantity + quantity)]
    ELSE Append(its, CartItem(name, price, quantity))

add_item(its, name, price, quantity) ==
    IF IndexOf(its, name) # 0
    THEN [its EXCEPT ![IndexOf(its, name)].quantity = @ + quantity]
    ELSE Append(its, CartItem(name, price, quantity))

remove_item(its, name) == Without(its, name)

\* total as it would be if it summed the unit prices only
RECURSIVE total_unit_prices(_)
total_unit_prices(its) ==
    IF its = <<>> THEN 0
    ELSE Head(its).price + total_unit_prices(Tail(its))

RECURSIVE total(_)
total(its) ==
    IF its = <<>> THEN 0
    ELSE Head(its).price * Head(its).quantity + total(Tail(its))

is_empty(its) == Len(its) = 0

RECURSIVE TotalCalls(_)
TotalCalls(S) ==
    IF S = {} THEN 0
    ELSE LET n == CHOOSE x \in S : TRUE IN Len(calls[n]) + TotalCalls(S \ {n})

AddItem(name, price, quantity) ==
    /\ items' = add_item(items, name, price, quantity)
    /\ calls' = [calls EXCEPT ![name] = Append(@, [price |-> price, quantity |-> quantity])]
    /\ call' = [op |-> "add_item", name |-> name, price |-> price, quantity |-> quantity]
    /\ ret' = None
    /\ gateway_calls' = <<>>
    /\ processor_calls' = <<>>
    /\ UNCHANGED <<users, passed, available_items>>

RemoveItem(name) ==
    /\ items' = remove_item(items, name)
    /\ calls' = [calls EXCEPT ![name] = <<>>]
    /\ call' = [op |-> "remove_item", name |-> name]
    /\ ret' = None
    /\ gateway_calls' = <<>>
    /\ processor_calls' = <<>>
    /\ UNCHANGED <<users, passed, available_items>>

Total ==
    /\ call' = [op |-> "total"]
    /\ ret' = Num(total(items))
    /\ gateway_calls' = <<>>
    /\ processor_calls' = <<>>
    /\ UNCHANGED <<users, passed, items, calls, available_items>>

IsEmpty ==
    /\ call' = [op |-> "is_empty"]
    /\ ret' = Bool(is_empty(items))
    /\ gateway_calls' = <<>>
    /\ processor_calls' = <<>>
    /\ UNCHANGED <<users, passed, items, calls, available_items>>

(***************************************************************************)
(* RestaurantMenu and OrderPlacement                                       *)
(***************************************************************************)
add_menu_item(menu, name, price) == Put(menu, name, price)

has_item(menu, name) == name \in DOMAIN menu

\* the loop as it would be if it kept scanning and reported the last absent item
RECURSIVE ScanItems_last(_, _)
ScanItems_last(its, menu) ==
    IF its = <<>> THEN Dict(TRUE, "Order is valid")
    ELSE LET rest == ScanItems_last(Tail(its), menu) IN
         IF ~rest.success THEN rest
         ELSE IF Head(its).name \notin DOMAIN menu
         THEN Dict(FALSE, Head(its).name \o " is not available")
         ELSE rest

\* the loop of validate_order over cart.items.values(), in insertion order
RECURSIVE ScanItems(_, _)
ScanItems(its, menu) ==
    IF its = <<>> THEN Dict(TRUE, "Order is valid")
    ELSE IF ~has_item(menu, Head(its).name)
    THEN Dict(FALSE, Head(its).name \o " is not available")
    ELSE ScanItems(Tail(its), menu)

\* validate_order as it would be without the empty-cart check
validate_order_no_empty_check(its, menu) == ScanItems(its, menu)

validate_order(its, menu) ==
    IF is_empty(its) THEN Dict(FALSE, "Cart is empty") ELSE ScanItems(its, menu)

AddMenuItem(name, price) ==
    /\ available_items' = add_menu_item(available_items, name, price)
    /\ call' = [op |-> "add_menu_item", name |-> name, price |-> price]
    /\ ret' = None
    /\ gateway_calls' = <<>>
    /\ processor_calls' = <<>>
    /\ UNCHANGED <<users, passed, items, calls>>

ValidateOrder ==
    /\ call' = [op |-> "validate_order"]
    /\ ret' = validate_order(items, available_items)
    /\ gateway_calls' = <<>>
    /\ processor_calls' = <<>>
    /\ UNCHANGED <<users, passed, items, calls, available_items>>

(***************************************************************************)
(* PaymentProcessing                                                       *)
(***************************************************************************)
SUPPORTED_METHODS == {"credit_card"}

\* str.isdigit(): non-empty and every character has the Unicode digit property
isdigit(s) == Len(s) > 0 /\ \A i \in 1..Len(s) : s[i] \in AsciiDigits \cup OtherUnicodeDigits

validate_payment_method(method) ==
    IF method \notin SUPPORTED_METHODS
    THEN Raise("ValueError", "Invalid payment method")
    ELSE Bool(TRUE)

validate_credit_card(card_number, cvv) ==
    /\ Len(card_number) \in {15, 16}
    /\ Len(cvv) = 3
    /\ isdigit(card_number)
    /\ isdigit(cvv)

GatewayCall(amount, method, card_number, cvv, success) ==
    [amount |-> amount, card_number |-> card_number, cvv |-> cvv,
     method |-> method, result |-> success]

\* process_payment as it would be if the gateway were asked before the card check
process_payment_gateway_first(amount, method, card_number, cvv, success) ==
    LET v == validate_payment_method(method) IN
    IF v.kind = "raise"
    THEN [ret |-> Text("Error: " \o v.text), gateway |-> <<>>]
    ELSE [ret |-> IF success /\ validate_credit_card(card_number, cvv)
                  THEN Text("Payment successful, Order confirmed")
                  ELSE Text("Payment failed, please try again"),
          gateway |-> <<GatewayCall(amount, method, card_number, cvv, success)>>]

\* process_payment as it would be if the card were checked before the method
process_payment_card_first(amount, method, card_number, cvv, success) ==
    LET v == validate_payment_method(method) IN
    IF ~validate_credit_card(card_number, cvv)
    THEN [ret |-> Text("Payment failed, please try again"), gateway |-> <<>>]
    ELSE IF v.kind = "raise"
    THEN [ret |-> Text("Error: " \o v.text), gateway |-> <<>>]
    ELSE [ret |-> IF success
                  THEN Text("Payment successful, Order confirmed")
                  ELSE Text("Payment failed, please try again"),
          gateway |-> <<GatewayCall(amount, method, card_number, cvv, success)>>]

\* process_payment as it would be without the try/except
process_payment_propagating(amount, method, card_number, cvv, success) ==
    LET v == validate_payment_method(method) IN
    IF v.kind = "raise"
    THEN [ret |-> v, gateway |-> <<>>]
    ELSE IF ~validate_credit_card(card_number, cvv)
    THEN [ret |-> Text("Payment failed, please try again"), gateway |-> <<>>]
    ELSE [ret |-> IF success
                  THEN Text("Payment successful, Order confirmed")
                  ELSE Text("Payment failed, please try again"),
          gateway |-> <<GatewayCall(amount, method, card_number, cvv, success)>>]

\* The result of process_payment: the returned string and the invocations of
\* the gateway it made; `success` is what the gateway answers if invoked.
process_payment(amount, method, card_number, cvv, success) ==
    LET v == validate_payment_method(method) IN
    IF v.kind = "raise"
    THEN [ret |-> Text("Error: " \o v.text), gateway |-> <<>>]
    ELSE IF ~validate_credit_card(card_number, cvv)
    THEN [ret |-> Text("Payment failed, please try again"), gateway |-> <<>>]
    ELSE [ret |-> IF success
                  THEN Text("Payment successful, Order confirmed")
                  ELSE Text("Payment failed, please try again"),
          gateway |-> <<GatewayCall(amount, method, card_number, cvv, success)>>]

ValidatePaymentMethod(method) ==
    /\ call' = [op |-> "validate_payment_method", method |-> method]
    /\ ret' = validate_payment_method(method)
    /\ gateway_calls' = <<>>
    /\ processor_calls' = <<>>
    /\ UNCHANGED <<users, passed, items, calls, available_items>>

ValidateCreditCard(card_number, cvv) ==
    /\ call' = [op |-> "validate_credit_card", card_number |-> card_number, cvv |-> cvv]
    /\ ret' = Bool(validate_credit_card(card_number, cvv))
    /\ gateway_calls' = <<>>
    /\ processor_calls' = <<>>
    /\ UNCHANGED <<users, passed, items, calls, available_items>>

ProcessPayment(amount, method, card_number, cvv, success) ==
    LET r == process_payment(amount, method, card_number, cvv, success) IN
    /\ call' = [op |-> "process_payment", amount |-> amount, method |-> method,
                card_number |-> card_number, cvv |-> cvv]
    /\ ret' = r.ret
    /\ gateway_calls' = r.gateway
    /\ processor_calls' = <<>>
    /\ UNCHANGED <<users, passed, items, calls, available_items>>

(***************************************************************************)
(* OrderWorkflow: placeOrder is the composition the design document        *)
(* requires of OrderPlacement.validate_order and                           *)
(* PaymentProcessing.process_payment; models.py has no such function.      *)
(***************************************************************************)
placeOrder(its, menu, paymentMethod, cardNumber, cvv, success) ==
    LET verdict == validate_order(its, menu) IN
    IF ~verdict.success
    THEN [ret |-> Text(verdict.message), gateway |-> <<>>, processor |-> <<>>]
    ELSE LET amount == total(its)
             r == process_payment(amount, paymentMethod, cardNumber, cvv, success)
         IN [ret |-> r.ret, gateway |-> r.gateway,
             processor |-> << [amount |-> amount, method |-> paymentMethod,
                               card_number |-> cardNumber, cvv |-> cvv] >>]

PlaceOrder(paymentMethod, cardNumber, cvv, success) ==
    LET r == placeOrder(items, available_items, paymentMethod, cardNumber, cvv, success) IN
    /\ call' = [op |-> "placeOrder", method |-> paymentMethod,
                card_number |-> cardNumber, cvv |-> cvv]
    /\ ret' = r.ret
    /\ gateway_calls' = r.gateway
    /\ processor_calls' = r.processor
    /\ UNCHANGED <<users, passed, items, calls, available_items>>

(***************************************************************************)
(* Specifications                                                          *)
(***************************************************************************)
Init ==
    /\ users = [e \in {} |-> <<>>]
    /\ passed = {}
    /\ items = <<>>
    /\ calls = [n \in Names |-> <<>>]
    /\ available_items = [n \in {} |-> 0]
    /\ call = [op |-> "init"]
    /\ ret = None
    /\ gateway_calls = <<>>
    /\ processor_calls = <<>>

PayNext ==
    \/ \E method \in Methods : ValidatePaymentMethod(method)
    \/ \E card_number \in Cards, cvv \in Cvvs : ValidateCreditCard(card_number, cvv)
    \/ \E amount \in Amounts, method \in Methods, card_number \in Cards,
          cvv \in Cvvs, success \in BOOLEAN :
            ProcessPayment(amount, method, card_number, cvv, success)

SpecPay == Init /\ [][PayNext]_vars

CartNext ==
    \/ \E name \in Names, price \in Prices, quantity \in Quantities :
            TotalCalls(Names) < MaxCalls /\ AddItem(name, price, quantity)
    \/ \E name \in Names : RemoveItem(name)
    \/ Total
    \/ IsEmpty

SpecCart == Init /\ [][CartNext]_vars

OrderNext ==
    \/ \E name \in Names, price \in Prices, quantity \in OrderQuantities :
            TotalCalls(Names) < MaxOrderCalls /\ AddItem(name, price, quantity)
    \/ \E name \in Names : RemoveItem(name)
    \/ \E name \in Names, price \in MenuPrices : AddMenuItem(name, price)
    \/ ValidateOrder
    \/ \E paymentMethod \in OrderMethods, cardNumber \in OrderCards,
          cvv \in OrderCvvs, success \in BOOLEAN :
            PlaceOrder(paymentMethod, cardNumber, cvv, success)

SpecOrder == Init /\ [][OrderNext]_vars

RegNext ==
    \/ \E email \in Emails, password \in Passwords, confirm_password \in Passwords :
            Register(email, password, confirm_password)
    \/ \E email \in Emails : IsRegistered(email)

SpecReg == Init /\ [][RegNext]_vars

(***************************************************************************)
(* Properties of PaymentProcessing (checked under SpecPay)                 *)
(***************************************************************************)
Failed == "Payment failed, please try again"
Confirmed == "Payment successful, Order confirmed"

\* C1: a call of process_payment invokes the gateway exactly once when the
\* method is in {"credit_card"} and validate_credit_card(card_number, cvv) is
\* true, and zero times in every other case.
C1_GatewayOnceIffBothPass ==
    call.op = "process_payment" =>
        Len(gateway_calls) =
            IF call.method \in {"credit_card"}
               /\ validate_credit_card(call.card_number, call.cvv)
            THEN 1 ELSE 0

C1_Witness ==
    /\ call.op = "process_payment"
    /\ call.method = "credit_card"
    /\ validate_credit_card(call.card_number, call.cvv)
    /\ Len(gateway_calls) = 1

\* C2: process_payment returns "Error: Invalid payment method" for an
\* unsupported method whatever the card data are; else "Payment failed, please
\* try again" when validate_credit_card rejects the card data; else the
\* message of the gateway's answer (confirmed on true, failed on false).
C2_MessageByOrder ==
    call.op = "process_payment" =>
        ret = Text(IF call.method \notin {"credit_card"}
                   THEN "Error: Invalid payment method"
                   ELSE IF ~validate_credit_card(call.card_number, call.cvv)
                   THEN Failed
                   ELSE IF Len(gateway_calls) = 1 /\ gateway_calls[1].result
                   THEN Confirmed
                   ELSE Failed)

C2_Witness ==
    /\ call.op = "process_payment"
    /\ call.method = "cash"
    /\ ~validate_credit_card(call.card_number, call.cvv)
    /\ ret = Text("Error: Invalid payment method")

\* C3: validate_payment_method called directly returns true for a supported
\* method and raises ValueError("Invalid payment method") for every other
\* one; process_payment never ends in that error but returns a string.
C3_TwoTierErrors ==
    /\ call.op = "validate_payment_method" =>
          ret = IF call.method \in {"credit_card"}
                THEN Bool(TRUE)
                ELSE Raise("ValueError", "Invalid payment method")
    /\ call.op = "process_payment" => ret.kind = "str"

C3_Witness ==
    /\ call.op = "process_payment"
    /\ call.method = "bitcoin"
    /\ ret = Text("Error: Invalid payment method")

\* only the decimal digits 0-9
DecimalOnly(s) == \A i \in 1..Len(s) : s[i] \in AsciiDigits

\* C7: validate_credit_card returns true exactly when card_number is only
\* decimal digits 0-9 of length 15 or 16 and cvv is only decimal digits 0-9
\* of length 3.
C7_DecimalDigitsOnly ==
    call.op = "validate_credit_card" =>
        (ret.value <=> /\ Len(call.card_number) \in {15, 16}
                       /\ DecimalOnly(call.card_number)
                       /\ Len(call.cvv) = 3
                       /\ DecimalOnly(call.cvv))

(***************************************************************************)
(* Properties of Cart (checked under SpecCart)                             *)
(***************************************************************************)
RECURSIVE SumQuantity(_)
SumQuantity(log) ==
    IF log = <<>> THEN 0 ELSE Head(log).quantity + SumQuantity(Tail(log))

EntryNames(its) == {its[i].name : i \in 1..Len(its)}

OneEntryPerName(its) ==
    \A i, j \in 1..Len(its) : its[i].name = its[j].name => i = j

\* C6: after any sequence of add_item and remove_item calls every entry of
\* the cart has quantity >= 1 and there is at most one entry per name.
C6_QuantityAtLeastOne ==
    /\ \A i \in 1..Len(items) : items[i].quantity >= 1
    /\ OneEntryPerName(items)

\* C8: after add_item calls with the same name and no removal in between,
\* the entry's quantity is the sum of the quantities passed and its price is
\* the price passed in the first of those calls.
C8_QuantitySumFirstPrice ==
    \A n \in Names :
        calls[n] # <<>> =>
            /\ IndexOf(items, n) # 0
            /\ items[IndexOf(items, n)].quantity = SumQuantity(calls[n])
            /\ items[IndexOf(items, n)].price = calls[n][1].price

C8_Witness ==
    /\ call.op = "add_item"
    /\ Len(calls[call.name]) >= 2
    /\ calls[call.name][1].price # call.price
    /\ items[IndexOf(items, call.name)].price = calls[call.name][1].price

RECURSIVE SumOverNames(_)
SumOverNames(S) ==
    IF S = {} THEN 0
    ELSE LET n == CHOOSE x \in S : TRUE IN
         calls[n][1].price * SumQuantity(calls[n]) + SumOverNames(S \ {n})

\* C9: total() is the sum of price x quantity over exactly the entries now in
\* the cart: the names added and not removed since, each once; removed
\* entries contribute nothing and an empty cart has total 0.
C9_TotalIsSumOfEntries ==
    /\ EntryNames(items) = {n \in Names : calls[n] # <<>>}
    /\ OneEntryPerName(items)
    /\ total(items) = SumOverNames(EntryNames(items))
    /\ is_empty(items) => total(items) = 0
    /\ call.op = "total" => ret = Num(SumOverNames(EntryNames(items)))

C9_Witness ==
    /\ call.op = "total"
    /\ Len(items) >= 2
    /\ \E i \in 1..Len(items) : items[i].quantity >= 2
    /\ ret.num > 0

(***************************************************************************)
(* Properties of OrderPlacement and the order workflow (SpecOrder)         *)
(***************************************************************************)
Absent(its, menu) == {i \in 1..Len(its) : its[i].name \notin DOMAIN menu}

FirstAbsent(its, menu) ==
    CHOOSE i \in Absent(its, menu) : \A j \in Absent(its, menu) : i <= j

\* C5: validate_order rejects with "Cart is empty" iff the cart has no entry;
\* rejects with "<name> is not available" iff the cart is non-empty and some
\* entry is absent from the menu, <name> being the first absent entry in
\* insertion order; accepts with "Order is valid" otherwise.
C5_ThreeWayVerdict ==
    call.op = "validate_order" =>
        ret = IF Len(items) = 0
              THEN Dict(FALSE, "Cart is empty")
              ELSE IF Absent(items, available_items) # {}
              THEN Dict(FALSE, items[FirstAbsent(items, available_items)].name
                               \o " is not available")
              ELSE Dict(TRUE, "Order is valid")

C5_Witness ==
    /\ call.op = "validate_order"
    /\ Cardinality(Absent(items, available_items)) >= 2
    /\ FirstAbsent(items, available_items) > 1
    /\ ret = Dict(FALSE, items[FirstAbsent(items, available_items)].name
                         \o " is not available")

\* C4: placeOrder validates the order first: when the cart is empty or holds
\* an item absent from the menu the outcome is the verdict's reason and
\* neither the payment processor nor the gateway is invoked; otherwise the
\* outcome is that of process_payment called with amount = cart.total() and
\* the payment data given.
C4_ValidateThenPay ==
    call.op = "placeOrder" =>
        IF Len(items) = 0 \/ Absent(items, available_items) # {}
        THEN /\ ret = Text(IF Len(items) = 0 THEN "Cart is empty"
                           ELSE items[FirstAbsent(items, available_items)].name
                                \o " is not available")
             /\ processor_calls = <<>>
             /\ gateway_calls = <<>>
        ELSE /\ processor_calls =
                  << [amount |-> total(items), method |-> call.method,
                      card_number |-> call.card_number, cvv |-> call.cvv] >>
             /\ \E success \in BOOLEAN :
                  LET r == process_payment(total(items), call.method,
                                           call.card_number, call.cvv, success)
                  IN ret = r.ret /\ gateway_calls = r.gateway

C4_Witness ==
    /\ call.op = "placeOrder"
    /\ Len(items) >= 2
    /\ Len(processor_calls) = 1
    /\ Len(gateway_calls) = 1
    /\ gateway_calls[1].amount = total(items)
    /\ ret = Text(Confirmed)

(***************************************************************************)
(* Properties of UserRegistry (checked under SpecReg)                      *)
(***************************************************************************)
\* C10: an email is registered iff an earlier register call for it passed all
\* checks; a register call for a registered email with otherwise valid input
\* fails with "Email already registered" and changes nothing; every failed
\* call leaves the registry unchanged; registered emails and their passwords
\* are never lost or replaced.
C10_RegistryOnlyGrows ==
    /\ [](DOMAIN users = passed)
    /\ [][ (/\ call'.op = "register"
            /\ call'.email \in DOMAIN users
            /\ is_valid_email(call'.email)
            /\ call'.password = call'.confirm_password
            /\ Len(call'.password) >= 6)
           => (ret' = Dict(FALSE, "Email already registered") /\ users' = users) ]_vars
    /\ [][ (call'.op = "register" /\ ~ret'.success) => users' = users ]_vars
    /\ [][ \A e \in DOMAIN users : e \in DOMAIN users' /\ users'[e] = users[e] ]_vars

C10_Witness ==
    /\ call.op = "register"
    /\ ret = Dict(FALSE, "Email already registered")
    /\ call.email \in DOMAIN users
    /\ users[call.email] # call.password

====
